---- MODULE Spec2Model ----
(***************************************************************************)
(* Ultima1 map loading (engines/ultima/ultima1/core/map.cpp) and the       *)
(* Ultima4 image buffer (engines/ultima/ultima4/gfx/image.cpp).            *)
(***************************************************************************)
EXTENDS Integers, Sequences, FiniteSets, TLC

VARIABLES
    mapId, mapType, mapStyle, mapSize, tilesPerOrigTile, dataLen, fixed,
    videoMode, fileName, seekPos, mapArg,
    img, pre, orig, hist, op, blits, ret, dup, palCalls

mapVars == <<mapId, mapType, mapStyle, mapSize, tilesPerOrigTile, dataLen,
             fixed, videoMode, fileName, seekPos, mapArg>>
imgVars == <<img, pre, orig, hist, op, blits, ret, dup, palCalls>>
vars == <<mapVars, imgVars>>

(***************************************************************************)
(* Bounds of the model.                                                    *)
(***************************************************************************)
MaxMapId == 44
MaxVideoMode == 2

(***************************************************************************)
(* Ultima1Map                                                              *)
(***************************************************************************)
TownCastleLimit == 33
TownCastleRecord == 684
TownStyles == 8
TownStyleBase == 2
CastleStyles == 2

\* Shared::Map::loadMap: stores the id and the video mode.
MapLoadMap(st, id, vm) ==
    [st EXCEPT !.mapId = id, !.videoMode = vm]

\* Ultima1Map::loadOverworldMap
LoadOverworldMap(st) ==
    [st EXCEPT !.mapType = "MAP_OVERWORLD",
               !.mapSize = <<168, 156>>,
               !.tilesPerOrigTile = <<1, 1>>,
               !.dataLen = 168 * 156,
               !.fileName = "map.bin",
               !.seekPos = 0]

\* Variant: the town/castle boundary taken one id too low.
LoadTownCastleMap_LowLimit(st) ==
    LET s1 == [st EXCEPT !.mapSize = <<38, 18>>,
                         !.tilesPerOrigTile = <<1, 1>>,
                         !.dataLen = 38 * 18,
                         !.fileName = "tcd.bin",
                         !.seekPos = st.mapId * TownCastleRecord,
                         !.fixed = TRUE]
    IN  IF s1.mapId < TownCastleLimit - 1
        THEN [s1 EXCEPT !.mapType = "MAP_TOWN",
                        !.mapStyle = (s1.mapId % TownStyles) + TownStyleBase]
        ELSE [s1 EXCEPT !.mapType = "MAP_CASTLE",
                        !.mapStyle = s1.mapId % CastleStyles,
                        !.mapId = s1.mapId - TownCastleLimit]

\* Variant: the castle id re-indexed before the seek and the style use it.
LoadTownCastleMap_DecrementFirst(st) ==
    LET id == IF st.mapId < TownCastleLimit THEN st.mapId
              ELSE st.mapId - TownCastleLimit
        s1 == [st EXCEPT !.mapSize = <<38, 18>>,
                         !.tilesPerOrigTile = <<1, 1>>,
                         !.dataLen = 38 * 18,
                         !.fileName = "tcd.bin",
                         !.seekPos = id * TownCastleRecord,
                         !.fixed = TRUE]
    IN  IF st.mapId < TownCastleLimit
        THEN [s1 EXCEPT !.mapType = "MAP_TOWN",
                        !.mapStyle = (id % TownStyles) + TownStyleBase]
        ELSE [s1 EXCEPT !.mapType = "MAP_CASTLE",
                        !.mapStyle = id % CastleStyles,
                        !.mapId = id]

\* Ultima1Map::loadTownCastleMap
LoadTownCastleMap(st) ==
    LET s1 == [st EXCEPT !.mapSize = <<38, 18>>,
                         !.tilesPerOrigTile = <<1, 1>>,
                         !.dataLen = 38 * 18,
                         !.fileName = "tcd.bin",
                         !.seekPos = st.mapId * TownCastleRecord,
                         !.fixed = TRUE]
    IN  IF s1.mapId < TownCastleLimit
        THEN [s1 EXCEPT !.mapType = "MAP_TOWN",
                        !.mapStyle = (s1.mapId % TownStyles) + TownStyleBase]
        ELSE [s1 EXCEPT !.mapType = "MAP_CASTLE",
                        !.mapStyle = s1.mapId % CastleStyles,
                        !.mapId = s1.mapId - TownCastleLimit]

\* Ultima1Map::loadMap as a function of the map object
Ultima1LoadMap(st, id, vm) ==
    LET s0 == MapLoadMap(st, id, vm)
    IN  IF id = 0 THEN LoadOverworldMap(s0) ELSE LoadTownCastleMap(s0)

MapState ==
    [mapId |-> mapId, mapType |-> mapType, mapStyle |-> mapStyle,
     mapSize |-> mapSize, tilesPerOrigTile |-> tilesPerOrigTile,
     dataLen |-> dataLen, fixed |-> fixed, videoMode |-> videoMode,
     fileName |-> fileName, seekPos |-> seekPos]

InitMap ==
    /\ mapId = 0
    /\ mapType = "MAP_OVERWORLD"
    /\ mapStyle = 0
    /\ mapSize = <<0, 0>>
    /\ tilesPerOrigTile = <<1, 1>>
    /\ dataLen = 0
    /\ fixed = FALSE
    /\ videoMode = 0
    /\ fileName = ""
    /\ seekPos = 0
    /\ mapArg = -1

\* Ultima1Map::loadMap(mapId, videoMode)
LoadMap(id, vm) ==
    LET s == Ultima1LoadMap(MapState, id, vm)
    IN  /\ mapId' = s.mapId
        /\ mapType' = s.mapType
        /\ mapStyle' = s.mapStyle
        /\ mapSize' = s.mapSize
        /\ tilesPerOrigTile' = s.tilesPerOrigTile
        /\ dataLen' = s.dataLen
        /\ fixed' = s.fixed
        /\ videoMode' = s.videoMode
        /\ fileName' = s.fileName
        /\ seekPos' = s.seekPos
        /\ mapArg' = id
        /\ UNCHANGED imgVars

(***************************************************************************)
(* Ultima4 Image                                                           *)
(***************************************************************************)
ImgW == 3
ImgH == 2
BigW == 12
BigH == 11
MaxOps == 2
MaxPalOps == 1
MaxBlitOps == 1
MaxHalo == 1

IM_OPAQUE == 255
IM_TRANSPARENT == 0
PALETTE_COUNT == 256
TEXT_BG_INDEX == 0
TEXT_FG_PRIMARY_INDEX == 15
TEXT_FG_SECONDARY_INDEX == 7
TEXT_FG_SHADOW_INDEX == 80

MIN(a, b) == IF a < b THEN a ELSE b
MAX(a, b) == IF a > b THEN a ELSE b
Abs(a) == IF a < 0 THEN 0 - a ELSE a
Byte(v) == v % 256

\* Graphics::PixelFormat::bytesPerPixel of the two surface formats
BytesPerPixel(fmt) == IF fmt = "CLUT8" THEN 1 ELSE 4

\* A 32-bit colour word is kept as its two 16-bit halves <<high, low>>.
\* Graphics::PixelFormat::ARGBToColor: CLUT8 has no colour bits and yields 0,
\* ARGB8888 packs a, r into the high half and g, b into the low half.
ARGBToColor(fmt, a, r, g, b) ==
    IF fmt = "CLUT8" THEN 0
    ELSE <<Byte(a) * 256 + Byte(r), Byte(g) * 256 + Byte(b)>>

\* Graphics::PixelFormat::colorToARGB
ColorToARGB(fmt, c) ==
    IF fmt = "CLUT8" THEN [a |-> 255, r |-> 0, g |-> 0, b |-> 0]
    ELSE [a |-> (c[1] \div 256) % 256, r |-> c[1] % 256,
          g |-> (c[2] \div 256) % 256, b |-> c[2] % 256]

Coords(w, h) == (0 .. w - 1) \X (0 .. h - 1)

\* Image::isIndexed
IsIndexed(im) == im.paletted

\* Image::isAlphaOn
IsAlphaOn(im) == ~im.paletted

\* Image::alphaOn / Image::alphaOff: empty bodies
AlphaOn(im) == im
AlphaOff(im) == im

\* The palette of a freshly allocated surface
BlankPalette == [i \in 0 .. PALETTE_COUNT - 1 |-> <<0, 0, 0>>]

\* Image::createInternal
CreateInternal(w, h, fmt) ==
    [paletted |-> (fmt = "CLUT8"), format |-> fmt, w |-> w, h |-> h,
     pix |-> [p \in Coords(w, h) |-> IF fmt = "CLUT8" THEN 0 ELSE <<0, 0>>],
     pal |-> BlankPalette,
     bg |-> [r |-> 0, g |-> 0, b |-> 0, a |-> 0]]

\* Image::getPixel
GetPixel(im, x, y) ==
    LET index == im.pix[<<x, y>>]
    IN  IF BytesPerPixel(im.format) = 1
        THEN [r |-> im.pal[index][1], g |-> im.pal[index][2],
              b |-> im.pal[index][3], a |-> IM_OPAQUE]
        ELSE LET c == ColorToARGB(im.format, index)
             IN  [r |-> c.r, g |-> c.g, b |-> c.b, a |-> c.a]

\* Image::getColor
GetColor(im, r, g, b, a) ==
    IF BytesPerPixel(im.format) = 1
    THEN LET hits == {c \in 0 .. 254 : im.pal[c] = <<Byte(r), Byte(g), Byte(b)>>}
         IN  IF hits = {} THEN 255
             ELSE CHOOSE c \in hits : \A k \in hits : c <= k
    ELSE ARGBToColor(im.format, a, r, g, b)

\* Image::putPixel
PutPixel(im, x, y, r, g, b, a) ==
    [im EXCEPT !.pix[<<x, y>>] = GetColor(im, r, g, b, a)]

\* Image::getPaletteColor
GetPaletteColor(im, index) ==
    IF im.paletted
    THEN [r |-> im.pal[index][1], g |-> im.pal[index][2],
          b |-> im.pal[index][3], a |-> IM_OPAQUE]
    ELSE [r |-> 0, g |-> 0, b |-> 0, a |-> 0]

(***************************************************************************)
(* Palette operations.  A palette call yields [im, ok, calls]: the image   *)
(* after the call, the boolean it returns, and the number of               *)
(* setPaletteIndex calls it made.  The void operations guarded by          *)
(* assertMsg yield [im, aborted].                                          *)
(***************************************************************************)

\* Image::setPalette
SetPalette(im, colors, n_colors) ==
    IF ~im.paletted THEN [im |-> im, aborted |-> TRUE]
    ELSE [im |-> [im EXCEPT !.pal = [i \in 0 .. PALETTE_COUNT - 1 |->
                                        IF i < n_colors THEN colors[i + 1] ELSE @[i]]],
          aborted |-> FALSE]

\* Image::setPaletteFromImage
SetPaletteFromImage(im, src) ==
    IF ~(im.paletted /\ src.paletted) THEN [im |-> im, aborted |-> TRUE]
    ELSE [im |-> [im EXCEPT !.pal = [i \in 0 .. PALETTE_COUNT - 1 |-> src.pal[i]]],
          aborted |-> FALSE]

\* Image::setPaletteIndex
SetPaletteIndex(im, index, r, g, b) ==
    IF ~im.paletted THEN [im |-> im, ok |-> FALSE]
    ELSE [im |-> [im EXCEPT !.pal[index] = <<r, g, b>>], ok |-> TRUE]

\* if (!setPaletteIndex(...)) return false;  as one link of a chain
PalStep(ctx, index, rgb) ==
    IF ~ctx.ok THEN ctx
    ELSE LET res == SetPaletteIndex(ctx.im, index, rgb[1], rgb[2], rgb[3])
         IN  [im |-> res.im, ok |-> res.ok, calls |-> ctx.calls + 1]

\* The same link with the result of the call ignored.
PalStepIgnoring(ctx, index, rgb) ==
    LET res == SetPaletteIndex(ctx.im, index, rgb[1], rgb[2], rgb[3])
    IN  [im |-> res.im, ok |-> ctx.ok /\ res.ok, calls |-> ctx.calls + 1]

\* The switch of Image::setFontColorFG: primary, secondary, shadow
FGScheme(fg) ==
    CASE fg = "FG_GREY"   -> <<<<153, 153, 153>>, <<102, 102, 102>>, <<51, 51, 51>>>>
      [] fg = "FG_BLUE"   -> <<<<102, 102, 255>>, <<51, 51, 204>>, <<51, 51, 51>>>>
      [] fg = "FG_PURPLE" -> <<<<255, 102, 255>>, <<204, 51, 204>>, <<51, 51, 51>>>>
      [] fg = "FG_GREEN"  -> <<<<102, 255, 102>>, <<0, 153, 0>>, <<51, 51, 51>>>>
      [] fg = "FG_RED"    -> <<<<255, 102, 102>>, <<204, 51, 51>>, <<51, 51, 51>>>>
      [] fg = "FG_YELLOW" -> <<<<255, 255, 51>>, <<204, 153, 51>>, <<51, 51, 51>>>>
      [] OTHER            -> <<<<255, 255, 255>>, <<204, 204, 204>>, <<68, 68, 68>>>>

\* Variant: the default branch reuses the grey scheme.
SetFontColorFG_GreyDefault(im, fg) ==
    LET s == IF fg \in {"FG_GREY", "FG_BLUE", "FG_PURPLE", "FG_GREEN", "FG_RED",
                        "FG_YELLOW"}
             THEN FGScheme(fg) ELSE FGScheme("FG_GREY")
        c0 == [im |-> im, ok |-> TRUE, calls |-> 0]
    IN  PalStep(PalStep(PalStep(c0, TEXT_FG_PRIMARY_INDEX, s[1]),
                        TEXT_FG_SECONDARY_INDEX, s[2]),
                TEXT_FG_SHADOW_INDEX, s[3])

\* Variant: the three writes are all attempted, the failures only remembered.
SetFontColorFG_NoShortCircuit(im, fg) ==
    LET s == FGScheme(fg)
        c0 == [im |-> im, ok |-> TRUE, calls |-> 0]
    IN  PalStepIgnoring(PalStepIgnoring(PalStepIgnoring(c0, TEXT_FG_PRIMARY_INDEX, s[1]),
                                        TEXT_FG_SECONDARY_INDEX, s[2]),
                        TEXT_FG_SHADOW_INDEX, s[3])

\* Image::setFontColorFG
SetFontColorFG(im, fg) ==
    LET s == FGScheme(fg)
        c0 == [im |-> im, ok |-> TRUE, calls |-> 0]
    IN  PalStep(PalStep(PalStep(c0, TEXT_FG_PRIMARY_INDEX, s[1]),
                        TEXT_FG_SECONDARY_INDEX, s[2]),
                TEXT_FG_SHADOW_INDEX, s[3])

\* Image::setFontColorBG
SetFontColorBG(im, bg) ==
    LET c0 == [im |-> im, ok |-> TRUE, calls |-> 0]
    IN  IF bg = "BG_BRIGHT"
        THEN PalStep(c0, TEXT_BG_INDEX, <<0, 0, 102>>)
        ELSE PalStep(c0, TEXT_BG_INDEX, <<0, 0, 0>>)

\* Image::setFontColor
SetFontColor(im, fg, bg) ==
    LET f == SetFontColorFG(im, fg)
    IN  IF ~f.ok THEN f
        ELSE LET b == SetFontColorBG(f.im, bg)
             IN  [im |-> b.im, ok |-> b.ok, calls |-> f.calls + b.calls]

(***************************************************************************)
(* Pixel operations.                                                       *)
(***************************************************************************)
RECURSIVE KeyPass(_, _, _, _, _, _, _)
\* Image::performTransparencyHack, first loop: the band top..bottom-1 is
\* scanned row by row; yields the image and the list opaqueXYs.
KeyPass(im, opaque, k, top, bottom, t, haloWidth) ==
    IF k >= im.w * (bottom - top) THEN [im |-> im, opaque |-> opaque]
    ELSE LET x == k % im.w
             y == top + (k \div im.w)
             p == GetPixel(im, x, y)
         IN  IF p.r = t.r /\ p.g = t.g /\ p.b = t.b
             THEN KeyPass(PutPixel(im, x, y, p.r, p.g, p.b, IM_TRANSPARENT),
                          opaque, k + 1, top, bottom, t, haloWidth)
             ELSE KeyPass(PutPixel(im, x, y, p.r, p.g, p.b, p.a),
                          IF haloWidth # 0 THEN Append(opaque, <<x, y>>) ELSE opaque,
                          k + 1, top, bottom, t, haloWidth)

RECURSIVE KeyPass_AlwaysRecord(_, _, _, _, _, _, _)
\* Variant of the first loop: every non-matching pixel is recorded, also
\* when the halo width is zero.
KeyPass_AlwaysRecord(im, opaque, k, top, bottom, t, haloWidth) ==
    IF k >= im.w * (bottom - top) THEN [im |-> im, opaque |-> opaque]
    ELSE LET x == k % im.w
             y == top + (k \div im.w)
             p == GetPixel(im, x, y)
         IN  IF p.r = t.r /\ p.g = t.g /\ p.b = t.b
             THEN KeyPass_AlwaysRecord(PutPixel(im, x, y, p.r, p.g, p.b, IM_TRANSPARENT),
                          opaque, k + 1, top, bottom, t, haloWidth)
             ELSE KeyPass_AlwaysRecord(PutPixel(im, x, y, p.r, p.g, p.b, p.a),
                          Append(opaque, <<x, y>>),
                          k + 1, top, bottom, t, haloWidth)

\* Variant of the halo update that writes the sum without the clamp.
HaloUpdate_NoClamp(im, ox, oy, x, y, span, inc) ==
    LET divisor == 1 + span * 2 - Abs(ox - x) - Abs(oy - y)
        p == GetPixel(im, x, y)
    IN  IF p.a # IM_OPAQUE
        THEN PutPixel(im, x, y, p.r, p.g, p.b, p.a + (inc \div divisor))
        ELSE im

\* Image::performTransparencyHack, body of the innermost halo loop
HaloUpdate(im, ox, oy, x, y, span, inc) ==
    LET divisor == 1 + span * 2 - Abs(ox - x) - Abs(oy - y)
        p == GetPixel(im, x, y)
    IN  IF p.a # IM_OPAQUE
        THEN PutPixel(im, x, y, p.r, p.g, p.b, MIN(IM_OPAQUE, p.a + (inc \div divisor)))
        ELSE im

RECURSIVE HaloBox(_, _, _, _, _, _, _, _)
\* The x and y loops around one opaque pixel: x outer, y inner.
HaloBox(im, ox, oy, j, top, bottom, span, inc) ==
    LET x_start == MAX(0, ox - span)
        x_finish == MIN(im.w, ox + span + 1)
        y_start == MAX(top, oy - span)
        y_finish == MIN(bottom, oy + span + 1)
        ny == y_finish - y_start
    IN  IF ny <= 0 \/ j >= (x_finish - x_start) * ny THEN im
        ELSE HaloBox(HaloUpdate(im, ox, oy, x_start + (j \div ny), y_start + (j % ny),
                                span, inc),
                     ox, oy, j + 1, top, bottom, span, inc)

RECURSIVE HaloPass(_, _, _, _, _, _, _)
\* Image::performTransparencyHack, second loop: over opaqueXYs in list order
\* (a surface without columns has no pixel to visit)
HaloPass(im, opaque, i, top, bottom, span, inc) ==
    IF i > Len(opaque) \/ im.w <= 0 THEN im
    ELSE HaloPass(HaloBox(im, opaque[i][1], opaque[i][2], 0, top, bottom, span, inc),
                  opaque, i + 1, top, bottom, span, inc)

\* The band of performTransparencyHack
FrameTop(im, numFrames, currentFrameIndex) ==
    MIN(im.h, currentFrameIndex * (im.h \div numFrames))

FrameBottom(im, numFrames, currentFrameIndex) ==
    MIN(im.h, FrameTop(im, numFrames, currentFrameIndex) + (im.h \div numFrames))

\* Variant of performTransparencyHack built on KeyPass_AlwaysRecord.
PerformTransparencyHack_AlwaysRecord(im, colorValue, numFrames, currentFrameIndex, haloWidth, haloInc) ==
    LET t == ColorToARGB(im.format, colorValue)
        top == FrameTop(im, numFrames, currentFrameIndex)
        bottom == FrameBottom(im, numFrames, currentFrameIndex)
        k == KeyPass_AlwaysRecord(im, <<>>, 0, top, bottom, t, haloWidth)
    IN  HaloPass(k.im, k.opaque, 1, top, bottom, haloWidth, haloInc)

\* Image::performTransparencyHack; haloInc is haloOpacityIncrementByPixelDistance
PerformTransparencyHack(im, colorValue, numFrames, currentFrameIndex, haloWidth, haloInc) ==
    LET t == ColorToARGB(im.format, colorValue)
        top == FrameTop(im, numFrames, currentFrameIndex)
        bottom == FrameBottom(im, numFrames, currentFrameIndex)
        k == KeyPass(im, <<>>, 0, top, bottom, t, haloWidth)
    IN  HaloPass(k.im, k.opaque, 1, top, bottom, haloWidth, haloInc)

\* Image::makeBackgroundColorTransparent
MakeBackgroundColorTransparentOf(im, haloSize, shadowOpacity) ==
    PerformTransparencyHack(
        im, ARGBToColor(im.format, im.bg.a, im.bg.r, im.bg.g, im.bg.b),
        1, 0, haloSize, shadowOpacity)

RECURSIVE HighlightFrom(_, _)
\* Image::drawHighlighted, the two loops: rows outer, columns inner
HighlightFrom(im, k) ==
    IF k >= im.w * im.h THEN im
    ELSE LET j == k % im.w
             i == k \div im.w
             c == GetPixel(im, j, i)
         IN  HighlightFrom(PutPixel(im, j, i, 255 - c.r, 255 - c.g, 255 - c.b, c.a),
                           k + 1)

RECURSIVE HighlightFrom_Opaque(_, _)
\* Variant: the inverted pixel written fully opaque.
HighlightFrom_Opaque(im, k) ==
    IF k >= im.w * im.h THEN im
    ELSE LET j == k % im.w
             i == k \div im.w
             c == GetPixel(im, j, i)
         IN  HighlightFrom_Opaque(
                 PutPixel(im, j, i, 255 - c.r, 255 - c.g, 255 - c.b, IM_OPAQUE), k + 1)

\* Variant of drawHighlighted built on HighlightFrom_Opaque.
DrawHighlightedOf_Opaque(im) == HighlightFrom_Opaque(im, 0)

\* Image::drawHighlighted
DrawHighlightedOf(im) == HighlightFrom(im, 0)

(***************************************************************************)
(* Blits.  A call of the raster primitive ManagedSurface::blitFrom is      *)
(* recorded as [src, dest]: the source rectangle and the destination       *)
(* position it is given.                                                   *)
(***************************************************************************)
Rect(x1, y1, x2, y2) == [left |-> x1, top |-> y1, right |-> x2, bottom |-> y2]

\* Common::Rect::isValidRect
IsValidRect(r) == r.left <= r.right /\ r.top <= r.bottom

\* Common::Rect::isEmpty
IsEmptyRect(r) == r.left >= r.right \/ r.top >= r.bottom

BlitCall(srcRect, x, y) == [src |-> srcRect, dest |-> <<x, y>>]

\* Image::drawOn
DrawOnCalls(im, x, y) == <<BlitCall(Rect(0, 0, im.w, im.h), x, y)>>

\* Variant: the destination is not moved by what was clipped.
DrawSubRectOnCalls_NoShift(im, x, y, rx, ry, rw, rh) ==
    LET r0 == Rect(rx, ry, MIN(rx + rw, im.w), MIN(ry + rh, im.h))
        r2 == [r0 EXCEPT !.left = MAX(0, r0.left), !.top = MAX(0, r0.top)]
    IN  IF IsValidRect(r2) THEN <<BlitCall(r2, x, y)>> ELSE <<>>

\* Variant: the blit is issued without the validity test.
DrawSubRectOnCalls_NoTest(im, x, y, rx, ry, rw, rh) ==
    LET r0 == Rect(rx, ry, MIN(rx + rw, im.w), MIN(ry + rh, im.h))
        dx == IF r0.left < 0 THEN x + (0 - r0.left) ELSE x
        r1 == IF r0.left < 0 THEN [r0 EXCEPT !.left = 0] ELSE r0
        dy == IF r1.top < 0 THEN y + (0 - r1.top) ELSE y
        r2 == IF r1.top < 0 THEN [r1 EXCEPT !.top = 0] ELSE r1
    IN  <<BlitCall(r2, dx, dy)>>

\* Image::drawSubRectOn
DrawSubRectOnCalls(im, x, y, rx, ry, rw, rh) ==
    LET r0 == Rect(rx, ry, MIN(rx + rw, im.w), MIN(ry + rh, im.h))
        dx == IF r0.left < 0 THEN x + (0 - r0.left) ELSE x
        r1 == IF r0.left < 0 THEN [r0 EXCEPT !.left = 0] ELSE r0
        dy == IF r1.top < 0 THEN y + (0 - r1.top) ELSE y
        r2 == IF r1.top < 0 THEN [r1 EXCEPT !.top = 0] ELSE r1
    IN  IF IsValidRect(r2) THEN <<BlitCall(r2, dx, dy)>> ELSE <<>>

RECURSIVE InvertedRows(_, _, _, _, _, _, _, _)
\* Image::drawSubRectInvertedOn, the loop from row i on
InvertedRows(calls, i, x, y, rx, ry, rw, rh) ==
    IF ~(i < rh) THEN calls
    ELSE InvertedRows(
             Append(calls, BlitCall(Rect(rx, ry + i, rx + rw, ry + i + 1),
                                    x, y + rh - i - 1)),
             i + 1, x, y, rx, ry, rw, rh)

RECURSIVE InvertedRowsDown(_, _, _, _, _, _, _, _)
\* The same rows issued from the last source row to the first.
InvertedRowsDown(calls, i, x, y, rx, ry, rw, rh) ==
    IF i < 0 THEN calls
    ELSE InvertedRowsDown(
             Append(calls, BlitCall(Rect(rx, ry + i, rx + rw, ry + i + 1),
                                    x, y + rh - i - 1)),
             i - 1, x, y, rx, ry, rw, rh)

\* Variant of drawSubRectInvertedOn: bottom source row first.
DrawSubRectInvertedOnCalls_BottomFirst(im, x, y, rx, ry, rw, rh) ==
    InvertedRowsDown(<<>>, rh - 1, x, y, rx, ry, rw, rh)

\* Image::drawSubRectInvertedOn
DrawSubRectInvertedOnCalls(im, x, y, rx, ry, rw, rh) ==
    InvertedRows(<<>>, 0, x, y, rx, ry, rw, rh)

\* ManagedSurface::blitFrom, one pixel: copied as is between surfaces of one
\* format, looked up in the source palette from a paletted to a direct one.
BlitConvert(src, dstFormat, sx, sy) ==
    IF src.format = dstFormat THEN src.pix[<<sx, sy>>]
    ELSE LET c == src.pal[src.pix[<<sx, sy>>]]
         IN  ARGBToColor(dstFormat, 255, c[1], c[2], c[3])

\* ManagedSurface::blitFrom: the effect of one recorded call on dst
BlitFrom(dst, src, call) ==
    [dst EXCEPT !.pix = [p \in Coords(dst.w, dst.h) |->
        LET sx == call.src.left + (p[1] - call.dest[1])
            sy == call.src.top + (p[2] - call.dest[2])
        IN  IF /\ sx >= call.src.left /\ sx < call.src.right
               /\ sy >= call.src.top /\ sy < call.src.bottom
               /\ sx >= 0 /\ sx < src.w /\ sy >= 0 /\ sy < src.h
            THEN BlitConvert(src, dst.format, sx, sy)
            ELSE dst.pix[p]]]

\* Variant: the palette of the source is checked but not taken over.
Duplicate_NoPalette(image, format) ==
    LET im0 == CreateInternal(image.w, image.h, format)
        calls == DrawOnCalls(image, 0, 0)
        im2 == BlitFrom(im0, image, calls[1])
    IN  IF IsIndexed(im0) /\ ~image.paletted
        THEN [aborted |-> TRUE, im |-> im0, image |-> image, calls |-> <<>>]
        ELSE [aborted |-> FALSE, im |-> [im2 EXCEPT !.bg = image.bg],
              image |-> image, calls |-> calls]

\* Image::duplicate: yields the new image, the source image after the call
\* and the blit calls made, or aborted when an assertion fails.
Duplicate(image, format) ==
    LET alphaOn == IsAlphaOn(image)
        im0 == CreateInternal(image.w, image.h, format)
        p == IF IsIndexed(im0) THEN SetPaletteFromImage(im0, image)
             ELSE [im |-> im0, aborted |-> FALSE]
        image1 == IF alphaOn THEN AlphaOff(image) ELSE image
        calls == DrawOnCalls(image1, 0, 0)
        im2 == BlitFrom(p.im, image1, calls[1])
        image2 == IF alphaOn THEN AlphaOn(image1) ELSE image1
    IN  IF p.aborted
        THEN [aborted |-> TRUE, im |-> im0, image |-> image, calls |-> <<>>]
        ELSE [aborted |-> FALSE, im |-> [im2 EXCEPT !.bg = image.bg],
              image |-> image2, calls |-> calls]

(***************************************************************************)
(* Images the operations start from.                                       *)
(***************************************************************************)
Cols == <<<<0, 0, 0>>, <<255, 255, 255>>, <<255, 102, 102>>, <<0, 153, 153>>>>

TemplatePalette(a, b) ==
    [i \in 0 .. PALETTE_COUNT - 1 |-> Cols[((i * a + b) % 4) + 1]]

DirectPix ==
    <<ARGBToColor("ARGB8888", 255, 0, 0, 0),
      ARGBToColor("ARGB8888", 255, 255, 102, 102),
      ARGBToColor("ARGB8888", 100, 255, 102, 102),
      ARGBToColor("ARGB8888", 0, 255, 255, 255)>>

IndexPix == <<0, 1, 254, 255>>

Pattern(x, y, a, b, c) == ((x * a + y * b + c) % 4) + 1

Backgrounds ==
    {[r |-> 0, g |-> 0, b |-> 0, a |-> 255], [r |-> 255, g |-> 102, b |-> 102, a |-> 255]}

DirectImage(w, h, a, b, c, bg) ==
    [paletted |-> FALSE, format |-> "ARGB8888", w |-> w, h |-> h,
     pix |-> [p \in Coords(w, h) |-> DirectPix[Pattern(p[1], p[2], a, b, c)]],
     pal |-> BlankPalette, bg |-> bg]

PalettedImage(w, h, a, b, c, pa, pb) ==
    [paletted |-> TRUE, format |-> "CLUT8", w |-> w, h |-> h,
     pix |-> [p \in Coords(w, h) |-> IndexPix[Pattern(p[1], p[2], a, b, c)]],
     pal |-> TemplatePalette(pa, pb),
     bg |-> [r |-> 0, g |-> 0, b |-> 0, a |-> 255]]

PixelImages ==
    {DirectImage(ImgW, ImgH, a, b, c, bg) :
        a \in 0 .. 1, b \in 0 .. 1, c \in 0 .. 3, bg \in Backgrounds}
    \cup {PalettedImage(ImgW, ImgH, a, b, c, pa, pb) :
        a \in 0 .. 1, b \in 0 .. 1, c \in 0 .. 3, pa \in 1 .. 2, pb \in 0 .. 1}

BlitImages ==
    {DirectImage(ImgW, ImgH, 1, 1, 0, [r |-> 0, g |-> 0, b |-> 0, a |-> 255]),
     DirectImage(BigW, BigH, 1, 1, 0, [r |-> 0, g |-> 0, b |-> 0, a |-> 255]),
     PalettedImage(ImgW, ImgH, 1, 1, 0, 1, 0),
     PalettedImage(BigW, BigH, 1, 1, 0, 1, 0)}

PalImages ==
    {DirectImage(ImgW, ImgH, 1, 1, c, bg) : c \in 0 .. 3, bg \in Backgrounds}
    \cup {PalettedImage(ImgW, ImgH, 1, 1, c, pa, pb) :
        c \in 0 .. 1, pa \in 0 .. 2, pb \in 0 .. 1}

InitImg(images) ==
    /\ img \in images
    /\ pre = img
    /\ orig = img
    /\ hist = <<>>
    /\ op = [name |-> "create", a |-> <<>>]
    /\ blits = <<>>
    /\ ret = "void"
    /\ dup = <<>>
    /\ palCalls = 0

Running(n) == ret # "abort" /\ Len(hist) < n

(***************************************************************************)
(* Operations on the image.                                                *)
(***************************************************************************)
\* img->drawOn(d, x, y)
DoDrawOn(x, y) ==
    /\ Running(MaxBlitOps)
    /\ hist' = Append(hist, "drawOn")
    /\ blits' = DrawOnCalls(img, x, y)
    /\ op' = [name |-> "drawOn", a |-> <<x, y>>]
    /\ pre' = img
    /\ ret' = "void"
    /\ palCalls' = 0
    /\ UNCHANGED <<img, orig, dup, mapVars>>

\* img->drawSubRectOn(d, x, y, rx, ry, rw, rh)
DoDrawSubRectOn(x, y, rx, ry, rw, rh) ==
    /\ Running(MaxBlitOps)
    /\ hist' = Append(hist, "drawSubRectOn")
    /\ blits' = DrawSubRectOnCalls(img, x, y, rx, ry, rw, rh)
    /\ op' = [name |-> "drawSubRectOn", a |-> <<x, y, rx, ry, rw, rh>>]
    /\ pre' = img
    /\ ret' = "void"
    /\ palCalls' = 0
    /\ UNCHANGED <<img, orig, dup, mapVars>>

\* img->drawSubRectInvertedOn(d, x, y, rx, ry, rw, rh)
DoDrawSubRectInvertedOn(x, y, rx, ry, rw, rh) ==
    /\ Running(MaxBlitOps)
    /\ hist' = Append(hist, "drawSubRectInvertedOn")
    /\ blits' = DrawSubRectInvertedOnCalls(img, x, y, rx, ry, rw, rh)
    /\ op' = [name |-> "drawSubRectInvertedOn", a |-> <<x, y, rx, ry, rw, rh>>]
    /\ pre' = img
    /\ ret' = "void"
    /\ palCalls' = 0
    /\ UNCHANGED <<img, orig, dup, mapVars>>

\* img->makeBackgroundColorTransparent(haloSize, shadowOpacity)
DoMakeBackgroundColorTransparent(haloSize, shadowOpacity) ==
    /\ Running(MaxOps)
    /\ img' = MakeBackgroundColorTransparentOf(img, haloSize, shadowOpacity)
    /\ op' = [name |-> "makeBackgroundColorTransparent",
              a |-> <<haloSize, shadowOpacity>>]
    /\ hist' = Append(hist, "makeBackgroundColorTransparent")
    /\ pre' = img
    /\ ret' = "void"
    /\ blits' = <<>>
    /\ palCalls' = 0
    /\ UNCHANGED <<orig, dup, mapVars>>

\* img->drawHighlighted()
DoDrawHighlighted ==
    /\ Running(MaxOps)
    /\ img' = DrawHighlightedOf(img)
    /\ op' = [name |-> "drawHighlighted", a |-> <<>>]
    /\ hist' = Append(hist, "drawHighlighted")
    /\ pre' = img
    /\ ret' = "void"
    /\ blits' = <<>>
    /\ palCalls' = 0
    /\ UNCHANGED <<orig, dup, mapVars>>

Bool(b) == IF b THEN "true" ELSE "false"

ColorArray(pa, pb) == [i \in 1 .. PALETTE_COUNT |-> TemplatePalette(pa, pb)[i - 1]]

PalSources ==
    {PalettedImage(ImgW, ImgH, 0, 0, 0, 1, 1),
     DirectImage(ImgW, ImgH, 0, 0, 0, [r |-> 0, g |-> 0, b |-> 0, a |-> 255])}

FGSelectors ==
    {"FG_GREY", "FG_BLUE", "FG_PURPLE", "FG_GREEN", "FG_RED", "FG_YELLOW",
     "FG_WHITE", "unknown"}

FGNamedCases ==
    {"FG_GREY", "FG_BLUE", "FG_PURPLE", "FG_GREEN", "FG_RED", "FG_YELLOW"}

BGSelectors == {"BG_NORMAL", "BG_BRIGHT", "unknown"}

\* img->setPalette(colors, n_colors)
DoSetPalette(pa, pb, n_colors) ==
    LET r == SetPalette(img, ColorArray(pa, pb), n_colors)
    IN  /\ Running(MaxPalOps)
        /\ img' = r.im
        /\ ret' = IF r.aborted THEN "abort" ELSE "void"
        /\ op' = [name |-> "setPalette", a |-> <<pa, pb, n_colors>>]
        /\ hist' = Append(hist, "setPalette")
        /\ pre' = img
        /\ blits' = <<>>
        /\ palCalls' = 0
        /\ UNCHANGED <<orig, dup, mapVars>>

\* img->setPaletteFromImage(src)
DoSetPaletteFromImage(src) ==
    LET r == SetPaletteFromImage(img, src)
    IN  /\ Running(MaxPalOps)
        /\ img' = r.im
        /\ ret' = IF r.aborted THEN "abort" ELSE "void"
        /\ op' = [name |-> "setPaletteFromImage", a |-> <<Bool(src.paletted)>>]
        /\ hist' = Append(hist, "setPaletteFromImage")
        /\ pre' = img
        /\ blits' = <<>>
        /\ palCalls' = 0
        /\ UNCHANGED <<orig, dup, mapVars>>

\* img->setPaletteIndex(index, r, g, b)
DoSetPaletteIndex(index, rgb) ==
    LET r == SetPaletteIndex(img, index, rgb[1], rgb[2], rgb[3])
    IN  /\ Running(MaxPalOps)
        /\ img' = r.im
        /\ ret' = Bool(r.ok)
        /\ op' = [name |-> "setPaletteIndex", a |-> <<index, rgb>>]
        /\ hist' = Append(hist, "setPaletteIndex")
        /\ pre' = img
        /\ blits' = <<>>
        /\ palCalls' = 1
        /\ UNCHANGED <<orig, dup, mapVars>>

\* img->setFontColorFG(fg)
DoSetFontColorFG(fg) ==
    LET c == SetFontColorFG(img, fg)
    IN  /\ Running(MaxPalOps)
        /\ img' = c.im
        /\ ret' = Bool(c.ok)
        /\ op' = [name |-> "setFontColorFG", a |-> <<fg>>]
        /\ hist' = Append(hist, "setFontColorFG")
        /\ pre' = img
        /\ blits' = <<>>
        /\ palCalls' = c.calls
        /\ UNCHANGED <<orig, dup, mapVars>>

\* img->setFontColorBG(bg)
DoSetFontColorBG(bg) ==
    LET c == SetFontColorBG(img, bg)
    IN  /\ Running(MaxPalOps)
        /\ img' = c.im
        /\ ret' = Bool(c.ok)
        /\ op' = [name |-> "setFontColorBG", a |-> <<bg>>]
        /\ hist' = Append(hist, "setFontColorBG")
        /\ pre' = img
        /\ blits' = <<>>
        /\ palCalls' = c.calls
        /\ UNCHANGED <<orig, dup, mapVars>>

\* img->setFontColor(fg, bg)
DoSetFontColor(fg, bg) ==
    LET c == SetFontColor(img, fg, bg)
    IN  /\ Running(MaxPalOps)
        /\ img' = c.im
        /\ ret' = Bool(c.ok)
        /\ op' = [name |-> "setFontColor", a |-> <<fg, bg>>]
        /\ hist' = Append(hist, "setFontColor")
        /\ pre' = img
        /\ blits' = <<>>
        /\ palCalls' = c.calls
        /\ UNCHANGED <<orig, dup, mapVars>>

\* Image::duplicate(img, format)
DoDuplicate(format) ==
    LET d == Duplicate(img, format)
    IN  /\ Running(MaxPalOps)
        /\ img' = d.image
        /\ dup' = IF d.aborted THEN <<>> ELSE <<d.im>>
        /\ ret' = IF d.aborted THEN "abort" ELSE "void"
        /\ op' = [name |-> "duplicate", a |-> <<format>>]
        /\ hist' = Append(hist, "duplicate")
        /\ pre' = img
        /\ blits' = d.calls
        /\ palCalls' = 0
        /\ UNCHANGED <<orig, mapVars>>

(***************************************************************************)
(* Specifications.                                                         *)
(***************************************************************************)
RectOrigins(extent) == {-13, -3, 0, extent, extent + 1}
RectRows(extent) == {-3, 0, extent}
RectWidths == {0, 3, 10}
RectHeights == {-1, 0, 3, 10}

NextMap ==
    \E id \in 0 .. MaxMapId, vm \in 0 .. MaxVideoMode : LoadMap(id, vm)

NextBlit ==
    \/ \E x \in {0, 5} : DoDrawOn(x, 5)
    \/ \E rx \in RectOrigins(img.w), ry \in RectRows(img.h),
          rw \in RectWidths, rh \in RectHeights :
           DoDrawSubRectOn(5, 5, rx, ry, rw, rh)
    \/ \E rx \in RectOrigins(img.w), ry \in RectRows(img.h),
          rw \in RectWidths, rh \in RectHeights :
           DoDrawSubRectInvertedOn(5, 5, rx, ry, rw, rh)

NextPixel ==
    \/ \E haloSize \in 0 .. MaxHalo, shadowOpacity \in {100, 255} :
           DoMakeBackgroundColorTransparent(haloSize, shadowOpacity)
    \/ DoDrawHighlighted

NextPal ==
    \/ \E pa \in {1}, pb \in {1, 2}, n \in {1, PALETTE_COUNT} : DoSetPalette(pa, pb, n)
    \/ \E src \in PalSources : DoSetPaletteFromImage(src)
    \/ \E index \in {TEXT_FG_PRIMARY_INDEX, 255}, rgb \in {<<1, 2, 3>>} :
           DoSetPaletteIndex(index, rgb)
    \/ \E fg \in FGSelectors : DoSetFontColorFG(fg)
    \/ \E bg \in BGSelectors : DoSetFontColorBG(bg)
    \/ \E fg \in {"FG_GREY", "FG_WHITE", "unknown"}, bg \in {"BG_NORMAL", "BG_BRIGHT"} :
           DoSetFontColor(fg, bg)
    \/ \E format \in {"CLUT8", "ARGB8888"} : DoDuplicate(format)

Init == InitMap /\ InitImg(PixelImages \cup BlitImages \cup PalImages)
Next == NextMap \/ NextBlit \/ NextPixel \/ NextPal
Spec == Init /\ [][Next]_vars

MapInit == InitMap /\ InitImg({PalettedImage(ImgW, ImgH, 1, 1, 0, 1, 0)})
BlitInit == InitMap /\ InitImg(BlitImages)
PixelInit == InitMap /\ InitImg(PixelImages)
PalInit == InitMap /\ InitImg(PalImages)

SpecMap == MapInit /\ [][NextMap]_vars
SpecBlit == BlitInit /\ [][NextBlit]_vars
SpecPixel == PixelInit /\ [][NextPixel]_vars
SpecPal == PalInit /\ [][NextPal]_vars

(***************************************************************************)
(* Properties of Ultima1Map::loadMap, under SpecMap.                       *)
(***************************************************************************)

\* C1 as stated: every map id in [0,33) loads as a town/city whose style is
\* mapId mod 8 + 2.
C1_TownForAllIdsBelow33 ==
    mapArg \in 0 .. 32 => mapType = "MAP_TOWN" /\ mapStyle = (mapArg % 8) + 2

\* C1 amended: every map id in [1,33) loads as a town/city whose style is
\* mapId mod 8 + 2; map id 0 loads the overworld map instead.
C1_TownForIdsFrom1 ==
    /\ mapArg \in 1 .. 32 =>
           mapType = "MAP_TOWN" /\ mapStyle = (mapArg % 8) + 2 /\ mapId = mapArg
    /\ mapArg = 0 => mapType = "MAP_OVERWORLD" /\ fileName = "map.bin"

C1_Witness ==
    mapArg = 32 /\ mapType = "MAP_TOWN" /\ mapStyle = 2 /\ fileName = "tcd.bin"

\* C2: every map id >= 33 loads as a castle whose style is the parity of the
\* id passed in, the stored id is that id minus 33, and the record is read at
\* (id passed in) * 684.
C2_CastleUsesOriginalId ==
    mapArg >= 33 =>
        /\ mapType = "MAP_CASTLE"
        /\ mapStyle = mapArg % 2
        /\ mapId = mapArg - 33
        /\ fileName = "tcd.bin"
        /\ seekPos = mapArg * 684

C2_Witness ==
    mapArg = 34 /\ mapType = "MAP_CASTLE" /\ mapStyle = 0 /\ mapId = 1
    /\ seekPos = 23256

(***************************************************************************)
(* Properties of the blits, under SpecBlit.  The arguments of the last     *)
(* call are op.a = <<x, y, rx, ry, rw, rh>>.                               *)
(***************************************************************************)
ArgX == op.a[1]
ArgY == op.a[2]
ArgRX == op.a[3]
ArgRY == op.a[4]
ArgRW == op.a[5]
ArgRH == op.a[6]

\* What is clipped off the left and the top edge of the source rectangle
ClipX == MAX(0, 0 - ArgRX)
ClipY == MAX(0, 0 - ArgRY)

\* The source rectangle reaches over the left or the top edge into the surface
Straddles ==
    /\ (ArgRX < 0 \/ ArgRY < 0)
    /\ ArgRX + ArgRW > 0
    /\ ArgRY + ArgRH > 0
    /\ ArgRX < img.w
    /\ ArgRY < img.h

\* The destination origin is moved by exactly what was clipped, and the call
\* is the one that draws the clipped rectangle at the moved origin.
ShiftedByClip ==
    (op.name = "drawSubRectOn" /\ Straddles) =>
        /\ Len(blits) = 1
        /\ blits[1].dest = <<ArgX + ClipX, ArgY + ClipY>>
        /\ blits[1].src.left = MAX(0, ArgRX)
        /\ blits[1].src.top = MAX(0, ArgRY)
        /\ blits[1].src.right = MIN(ArgRX + ArgRW, img.w)
        /\ blits[1].src.bottom = MIN(ArgRY + ArgRH, img.h)
        /\ blits = DrawSubRectOnCalls(img, ArgX + ClipX, ArgY + ClipY,
                                      ArgRX + ClipX, ArgRY + ClipY,
                                      ArgRW - ClipX, ArgRH - ClipY)

IsExample == op.name = "drawSubRectOn" /\ op.a = <<5, 5, -3, 0, 10, 10>>

\* C3 as stated: a source rectangle straddling the left/top edge moves the
\* destination origin by what was clipped, and the rectangle (-3,0,10,10)
\* drawn at (5,5) is the same blit as the rectangle (0,0,10,10) drawn at (8,5).
C3_ExampleKeepsWidth10 ==
    /\ ShiftedByClip
    /\ IsExample => blits = DrawSubRectOnCalls(img, 8, 5, 0, 0, 10, 10)

\* C3 amended: a source rectangle straddling the left/top edge moves the
\* destination origin by what was clipped and is the same blit as drawing the
\* clipped rectangle at the moved origin; the rectangle (-3,0,10,10) drawn at
\* (5,5) is the same blit as the rectangle (0,0,7,10) drawn at (8,5): the
\* clipped rectangle keeps its right edge, so it is 7 wide, not 10.
C3_ExampleClippedWidth7 ==
    /\ ShiftedByClip
    /\ IsExample =>
           /\ blits = DrawSubRectOnCalls(img, 8, 5, 0, 0, 7, 10)
           /\ blits = <<[src |-> [left |-> 0, top |-> 0,
                                 right |-> MIN(7, img.w), bottom |-> MIN(10, img.h)],
                         dest |-> <<8, 5>>]>>

C3_Witness ==
    /\ IsExample
    /\ img.w >= 10 /\ img.h >= 10
    /\ blits = <<[src |-> [left |-> 0, top |-> 0, right |-> 7, bottom |-> 10],
                  dest |-> <<8, 5>>]>>

\* The source rectangle has no pixel of the surface: it lies beyond an edge
\* or only touches it.
OutsideSurface ==
    \/ ArgRX + ArgRW <= 0
    \/ ArgRY + ArgRH <= 0
    \/ ArgRX >= img.w
    \/ ArgRY >= img.h

\* The clipped rectangle has a negative width or height.
ClippedNegative ==
    \/ MIN(ArgRX + ArgRW, img.w) < MAX(0, ArgRX)
    \/ MIN(ArgRY + ArgRH, img.h) < MAX(0, ArgRY)

C10_BottomRowFirst ==
    (op.name = "drawSubRectInvertedOn" /\ ArgRH >= 1) =>
        /\ Len(blits) = ArgRH
        /\ blits[1].src.top = ArgRY + ArgRH - 1
        /\ blits[1].dest = <<ArgX, ArgY>>
        /\ \A i \in 0 .. ArgRH - 1 : \E k \in 1 .. Len(blits) :
               /\ blits[k].src = Rect(ArgRX, ArgRY + i, ArgRX + ArgRW, ArgRY + i + 1)
               /\ blits[k].dest = <<ArgX, ArgY + ArgRH - 1 - i>>

\* C10 amended: rh calls of one source row each (none when rh <= 0), in
\* ascending source order: the top source row ry is blitted first and lands
\* on the bottom destination row y+rh-1, the bottom source row ry+rh-1 is
\* blitted last and lands on the top destination row y; the k-th call carries
\* source row ry+k-1 to destination row y+rh-k.
C10_TopRowFirst ==
    op.name = "drawSubRectInvertedOn" =>
        /\ Len(blits) = MAX(0, ArgRH)
        /\ \A k \in 1 .. Len(blits) :
               /\ blits[k].src = Rect(ArgRX, ArgRY + k - 1, ArgRX + ArgRW, ArgRY + k)
               /\ blits[k].dest = <<ArgX, ArgY + ArgRH - k>>
        /\ ret = "void"

C10_Witness ==
    /\ op.name = "drawSubRectInvertedOn"
    /\ ArgRH = 3 /\ ArgRY = 0 /\ ArgRW = 3
    /\ Len(blits) = 3
    /\ blits[1].src.top = 0 /\ blits[1].dest[2] = ArgY + 2
    /\ blits[3].src.top = 2 /\ blits[3].dest[2] = ArgY

(***************************************************************************)
(* Properties of the pixel operations, under SpecPixel.                    *)
(***************************************************************************)
Pixels(im) == Coords(im.w, im.h)
RGBOf(im, p) == LET c == GetPixel(im, p[1], p[2]) IN <<c.r, c.g, c.b>>
AlphaOf(im, p) == GetPixel(im, p[1], p[2]).a

\* The pixel had the background colour before the call
MatchedBackground(p) == RGBOf(pre, p) = <<pre.bg.r, pre.bg.g, pre.bg.b>>

KeyedWithoutHalo == op.name = "makeBackgroundColorTransparent" /\ op.a[1] = 0

\* C5 as stated: with haloSize = 0 every pixel that matched the background
\* colour ends with alpha 0 and every other pixel with alpha 255, whatever the
\* pixels were and whatever the surface kind.
C5_AlphaIsZeroOr255 ==
    KeyedWithoutHalo =>
        \A p \in Pixels(img) :
            AlphaOf(img, p) = IF MatchedBackground(p) THEN 0 ELSE 255

\* C5 amended: with haloSize = 0 on a 32-bit ARGB image every pixel that
\* matched the background colour ends with alpha 0 and every other pixel
\* keeps the alpha it had (255 only where it was 255); on a paletted image
\* every pixel still reads alpha 255; no pixel's colour changes and there is
\* no halo change.
C5_KeyedAlphaElseKept ==
    KeyedWithoutHalo =>
        \A p \in Pixels(img) :
            /\ RGBOf(img, p) = RGBOf(pre, p)
            /\ ~img.paletted =>
                   AlphaOf(img, p) = IF MatchedBackground(p) THEN 0
                                     ELSE AlphaOf(pre, p)
            /\ img.paletted => AlphaOf(img, p) = 255

C5_Witness ==
    /\ KeyedWithoutHalo
    /\ ~img.paletted
    /\ \E p \in Pixels(img) :
           MatchedBackground(p) /\ AlphaOf(pre, p) = 255 /\ AlphaOf(img, p) = 0
    /\ \E p \in Pixels(img) :
           ~MatchedBackground(p) /\ AlphaOf(pre, p) = 100 /\ AlphaOf(img, p) = 100

HighlightedTwice == hist = <<"drawHighlighted", "drawHighlighted">>

Inverse(rgb) == <<255 - rgb[1], 255 - rgb[2], 255 - rgb[3]>>

\* Every pixel's inverted colour is an entry of the palette
PaletteHoldsInverses(im) ==
    \A p \in Pixels(im) :
        \E k \in 0 .. PALETTE_COUNT - 1 : im.pal[k] = Inverse(RGBOf(im, p))

AlphaKeptByHighlight ==
    op.name = "drawHighlighted" =>
        \A p \in Pixels(img) : AlphaOf(img, p) = AlphaOf(pre, p)

\* C6 as stated: on every image, direct-colour or paletted with any palette,
\* two applications of drawHighlighted restore every pixel's r, g, b, and
\* each application leaves alpha as it was.
C6_InvolutionOnEveryImage ==
    /\ HighlightedTwice => \A p \in Pixels(img) : RGBOf(img, p) = RGBOf(orig, p)
    /\ AlphaKeptByHighlight

\* C6 amended: on a direct-colour image, and on a paletted image whose
\* palette holds the inverse of every pixel's colour, two applications of
\* drawHighlighted restore every pixel's r, g, b (on a direct-colour image
\* the first application writes the inverse and the second the stored word);
\* each application leaves alpha as it was on every image.
C6_InvolutionWhereInverseExists ==
    /\ (HighlightedTwice /\ (~orig.paletted \/ PaletteHoldsInverses(orig))) =>
           \A p \in Pixels(img) :
               /\ RGBOf(img, p) = RGBOf(orig, p)
               /\ RGBOf(pre, p) = Inverse(RGBOf(orig, p))
    /\ (HighlightedTwice /\ ~orig.paletted) => img.pix = orig.pix
    /\ AlphaKeptByHighlight

C6_Witness ==
    /\ HighlightedTwice
    /\ ~orig.paletted
    /\ img.pix = orig.pix
    /\ \E p \in Pixels(img) :
           /\ RGBOf(orig, p) = <<255, 102, 102>>
           /\ AlphaOf(orig, p) = 100
           /\ RGBOf(pre, p) = <<0, 153, 153>>

(***************************************************************************)
(* Properties of the palette operations and of duplicate, under SpecPal.   *)
(***************************************************************************)
\* setFontColorFG was called with a selector its switch has no case for
UnrecognizedFG == op.name = "setFontColorFG" /\ op.a[1] \notin FGNamedCases

DefaultSchemeWritten ==
    /\ img.pal[TEXT_FG_PRIMARY_INDEX] = <<255, 255, 255>>
    /\ img.pal[TEXT_FG_SECONDARY_INDEX] = <<204, 204, 204>>
    /\ img.pal[TEXT_FG_SHADOW_INDEX] = <<68, 68, 68>>

\* C7 as stated: on every image, setFontColorFG with an unrecognized selector
\* writes the default scheme into the three text slots and returns success.
C7_DefaultOnEveryImage ==
    UnrecognizedFG => ret = "true" /\ DefaultSchemeWritten

\* C7 amended: on a paletted image, setFontColorFG with an unrecognized
\* selector writes the default scheme (255,255,255), (204,204,204),
\* (68,68,68) into the primary, secondary and shadow slots, touches no other
\* entry and returns success; on a non-paletted image it returns failure and
\* writes nothing.
C7_DefaultOnPalettedImage ==
    UnrecognizedFG =>
        /\ pre.paletted =>
               /\ ret = "true"
               /\ DefaultSchemeWritten
               /\ palCalls = 3
               /\ \A k \in 0 .. PALETTE_COUNT - 1 :
                      k \notin {TEXT_FG_PRIMARY_INDEX, TEXT_FG_SECONDARY_INDEX,
                                TEXT_FG_SHADOW_INDEX} => img.pal[k] = pre.pal[k]
               /\ img.pix = pre.pix
        /\ ~pre.paletted => ret = "false" /\ img = pre

C7_Witness ==
    /\ UnrecognizedFG
    /\ op.a[1] = "unknown"
    /\ pre.paletted
    /\ pre.pal[TEXT_FG_PRIMARY_INDEX] # <<255, 255, 255>>
    /\ pre.pal[TEXT_FG_SHADOW_INDEX] # <<68, 68, 68>>
    /\ ret = "true"
    /\ DefaultSchemeWritten

SameDecodedPixels(a, b) ==
    /\ a.w = b.w /\ a.h = b.h
    /\ \A p \in Pixels(a) : GetPixel(a, p[1], p[2]) = GetPixel(b, p[1], p[2])

\* C8 as stated: duplicate completes for the four combinations of source
\* kind and target format, the new buffer decodes to the colours of the
\* source, and the source's isAlphaOn is what it was.
C8_DuplicateAllCombinations ==
    op.name = "duplicate" =>
        /\ ret # "abort"
        /\ Len(dup) = 1
        /\ SameDecodedPixels(dup[1], img)
        /\ IsAlphaOn(img) = IsAlphaOn(pre)

\* C8 amended: duplicate completes for a paletted source with either target
\* format and for a 32-bit ARGB source with a 32-bit ARGB target; the new
\* buffer then has the requested format and decodes to the colours of the
\* source. A direct-colour source with a paletted target aborts in the
\* assertion of setPaletteFromImage. The source and its isAlphaOn are
\* unchanged in every case.
C8_DuplicateThreeCombinations ==
    op.name = "duplicate" =>
        /\ ret = "abort" <=> (~pre.paletted /\ op.a[1] = "CLUT8")
        /\ ret # "abort" =>
               /\ Len(dup) = 1
               /\ dup[1].format = op.a[1]
               /\ dup[1].paletted = (op.a[1] = "CLUT8")
               /\ SameDecodedPixels(dup[1], img)
               /\ dup[1].bg = img.bg
        /\ IsAlphaOn(img) = IsAlphaOn(pre)
        /\ img = pre

C8_Witness ==
    /\ op.name = "duplicate"
    /\ pre.paletted
    /\ op.a[1] = "CLUT8"
    /\ Len(dup) = 1
    /\ SameDecodedPixels(dup[1], img)
    /\ \E p, q \in Pixels(img) : RGBOf(img, p) # RGBOf(img, q)
    /\ \E p \in Pixels(img) : RGBOf(img, p) # <<0, 0, 0>>

FailingPaletteOps == {"setPaletteIndex", "setFontColorFG", "setFontColorBG", "setFontColor"}
AssertingPaletteOps == {"setPalette", "setPaletteFromImage"}

\* C9 as stated: on a non-paletted image each of the six palette operations
\* reports failure instead of aborting, and a font-colour preset makes no
\* palette write after the first failing one.
C9_AllReportFailure ==
    (~pre.paletted /\ op.name \in FailingPaletteOps \cup AssertingPaletteOps) =>
        /\ ret # "abort"
        /\ op.name \in FailingPaletteOps => ret = "false" /\ palCalls = 1

\* C9 amended: on a non-paletted image setPaletteIndex, setFontColorFG,
\* setFontColorBG and setFontColor return failure without aborting, the
\* presets stop at the first failing setPaletteIndex call (one call, nothing
\* written); setPalette and setPaletteFromImage return nothing and abort in
\* their assertion.
C9_IndexAndPresetsReportFailure ==
    ~pre.paletted =>
        /\ op.name \in FailingPaletteOps =>
               ret = "false" /\ palCalls = 1 /\ img = pre
        /\ op.name \in AssertingPaletteOps => ret = "abort" /\ img = pre

C9_Witness ==
    /\ ~pre.paletted
    /\ op.name = "setFontColor"
    /\ ret = "false"
    /\ palCalls = 1
    /\ img = pre

(***************************************************************************)
(* Properties of the halo pass of performTransparencyHack, under           *)
(* SpecPixel.  The pass of the last makeBackgroundColorTransparent call is *)
(* replayed update by update from the image before the call.               *)
(***************************************************************************)
HaloCall == op.name = "makeBackgroundColorTransparent"
HaloSpan == op.a[1]
HaloInc == op.a[2]
HaloTop == FrameTop(pre, 1, 0)
HaloBottom == FrameBottom(pre, 1, 0)

\* The image and the list opaqueXYs the first loop hands to the halo pass
HaloKeyed ==
    KeyPass(pre, <<>>, 0, HaloTop, HaloBottom,
            ColorToARGB(pre.format,
                        ARGBToColor(pre.format, pre.bg.a, pre.bg.r, pre.bg.g, pre.bg.b)),
            HaloSpan)

\* The pixels <<ox, oy, x, y>> the x and y loops visit around one opaque
\* pixel, in loop order
BoxVisits(w, ox, oy, top, bottom, span) ==
    LET x_start == MAX(0, ox - span)
        x_finish == MIN(w, ox + span + 1)
        y_start == MAX(top, oy - span)
        y_finish == MIN(bottom, oy + span + 1)
        nx == x_finish - x_start
        ny == y_finish - y_start
    IN  IF nx <= 0 \/ ny <= 0 THEN <<>>
        ELSE [j \in 1 .. nx * ny |->
                 <<ox, oy, x_start + ((j - 1) \div ny), y_start + ((j - 1) % ny)>>]

RECURSIVE HaloVisits(_, _, _, _, _, _)
\* All visits of the halo pass, opaque pixel by opaque pixel in list order
HaloVisits(w, opaque, i, top, bottom, span) ==
    IF i > Len(opaque) THEN <<>>
    ELSE BoxVisits(w, opaque[i][1], opaque[i][2], top, bottom, span)
             \o HaloVisits(w, opaque, i + 1, top, bottom, span)

RECURSIVE HaloTrace(_, _, _, _, _)
\* The images of the pass: trace[1] is the keyed image, trace[k + 1] the image
\* after the k-th visit
HaloTrace(trace, visits, k, span, inc) ==
    IF k > Len(visits) \/ trace[Len(trace)].w <= 0 THEN trace
    ELSE HaloTrace(Append(trace, HaloUpdate(trace[Len(trace)], visits[k][1], visits[k][2],
                                            visits[k][3], visits[k][4], span, inc)),
                   visits, k + 1, span, inc)

HaloVisitsOf(keyed) ==
    HaloVisits(pre.w, keyed.opaque, 1, HaloTop, HaloBottom, HaloSpan)
HaloTraceOf(keyed, visits) == HaloTrace(<<keyed.im>>, visits, 1, HaloSpan, HaloInc)

VisitDivisor(v) == 1 + 2 * HaloSpan - Abs(v[1] - v[3]) - Abs(v[2] - v[4])
VisitPixel(v) == <<v[3], v[4]>>

\* The neighbours of the recorded opaque pixels inside the band and the box
InBandNeighbours(opaque) ==
    UNION {{<<opaque[i][1], opaque[i][2], c[1], c[2]>> :
               c \in {q \in Pixels(pre) :
                         /\ q[2] >= HaloTop /\ q[2] < HaloBottom
                         /\ Abs(opaque[i][1] - q[1]) <= HaloSpan
                         /\ Abs(opaque[i][2] - q[2]) <= HaloSpan}} :
           i \in 1 .. Len(opaque)}

\* The k-th update of the pass
HaloStepOK(tr, vs, k) ==
    LET v == vs[k]
        p == VisitPixel(v)
        divisor == VisitDivisor(v)
        before == tr[k]
        after == tr[k + 1]
        a == AlphaOf(before, p)
    IN  /\ divisor >= 1
        /\ a = IM_OPAQUE => after = before
        /\ a # IM_OPAQUE =>
               AlphaOf(after, p) = MIN(IM_OPAQUE, a + (HaloInc \div divisor))
        /\ \A q \in Pixels(pre) :
               /\ AlphaOf(after, q) <= IM_OPAQUE
               /\ AlphaOf(after, q) >= AlphaOf(before, q)
               /\ RGBOf(after, q) = RGBOf(before, q)
               /\ q # p => AlphaOf(after, q) = AlphaOf(before, q)

====
